---- MODULE Spec2Model ----
(***************************************************************************)
(* Charging session lifecycle and financial reconciliation of the EV       *)
(* charging backend: payment creation, /start, /stop with settlement, and  *)
(* the demo energy simulator, with every await of a handler a separate     *)
(* step so that handlers interleave as the Node.js event loop allows.      *)
(*                                                                         *)
(* Units.  energyKwh is counted in hundredths of a kWh (the simulator's    *)
(* increment of 0.01 kWh is 1).  Prices are in grosze per kWh.  Ledger     *)
(* money (amount, cost, refundAmount: PLN in the code) is counted in       *)
(* 1/10000 PLN, so that energyKwh * pricePerKwh is exact.  Amounts on the  *)
(* wire to the payment gateway are in grosze.                              *)
(***************************************************************************)
EXTENDS Integers, Sequences, FiniteSets, TLC

\* ------------------------------------------------------------------ bounds
MaxTx == 2          \* transactions ever created
MaxEnergy == 2      \* simulator increments a transaction may accrue
MaxRefunds == 2     \* refunds the gateway accepts per payment intent
MaxFaults == 1      \* store calls that throw

\* --------------------------------------------------------------- constants
Stations == {"CP_001", "CP_002"}
Connectors == {"1", "2"}
NoConnector == "null"
ConnectorStation == [c \in Connectors |-> "CP_001"]
ConnectorPrice == [c \in Connectors |-> 290]
StationPrice == [s \in Stations |-> IF s = "CP_001" THEN 250 ELSE 150]
Amounts == {3}      \* request amounts, in grosze
InexactAmounts == {29}    \* amounts a with Math.floor((a / 100) * 100) = a - 1
GroszePerZloty == 100     \* amount / 100, refundAmount * 100
EnergyPerKwh == 100       \* energy unit: 0.01 kWh
Quantum == 1              \* + 0.01 kWh per tick
WhPerEnergyUnit == 10     \* newEnergyKwh * 1000, for 0.01 kWh
LedgerPerZloty == GroszePerZloty * EnergyPerKwh
NoTx == 0

\* Requests and callbacks in flight.  A request slot serves one request; the
\* slots are interchangeable, so the lowest free one is taken.
StartSlots == 1..3
StopSlots == 1..2
TickSlots == 1..2

None == << >>
Some(v) == << v >>

VARIABLES
  txs,                    \* the Transaction table, in creation order
  stationStatus,          \* Station.status
  connStatus,             \* Connector.status
  demoEnergySimulations,  \* transactionId -> interval handle (0: no entry)
  intervals,              \* the interval timers that are still armed
  stripeRefunds,          \* per transaction: the refunds created, in grosze
  faults,                 \* store calls that threw so far
  start,                  \* in-flight GET /start/:cpId requests
  stop,                   \* in-flight GET /stop/:stationId requests
  tick,                   \* in-flight simulator callbacks
  emitted                 \* the last energy_update event sent to the sockets

vars == << txs, stationStatus, connStatus, demoEnergySimulations, intervals,
           stripeRefunds, faults, start, stop, tick, emitted >>

dbVars == << txs, stationStatus, connStatus >>
simVars == << demoEnergySimulations, intervals >>

TxIds == 1..MaxTx

\* The response is written in the continuation that ends a request, so no
\* other callback runs between a handler's last step and its return.
Responding ==
  \/ \E s \in StartSlots : start[s].pc = "done"
  \/ \E s \in StopSlots : stop[s].pc = "done"

\* a store call (prisma) rejects
Throws == /\ faults < MaxFaults
          /\ faults' = faults + 1
ActiveStatuses == {"CHARGING", "PENDING"}

\* ----------------------------------------------------------------- queries
\* findFirst({where: {stationId, status in S}, orderBy: {createdAt: 'desc'}})
Matching(st, S) == { i \in 1..Len(txs) : txs[i].stationId = st /\ txs[i].status \in S }

Latest(ids) == IF ids = {} THEN NoTx ELSE CHOOSE i \in ids : \A j \in ids : j <= i

\* lines 257-265: the newest PENDING transaction of the station
FindNewest(st) == Latest(Matching(st, {"PENDING", "CHARGING", "COMPLETED"}))
Earliest(ids) == IF ids = {} THEN NoTx ELSE CHOOSE i \in ids : \A j \in ids : i <= j
FindPendingOldest(st) == Earliest(Matching(st, {"PENDING"}))
FindPending(st) == Latest(Matching(st, {"PENDING"}))

\* ----------------------------------------------------------------- payment
\* part_009 line 75: amountInZloty = amount / 100
AmountInZloty(amount) == (amount * LedgerPerZloty) \div GroszePerZloty

NewTransaction(st, c, amount) ==
  [ stationId |-> st, connectorId |-> c, amount |-> AmountInZloty(amount),
    energyKwh |-> 0, status |-> "PENDING", finalCost |-> None,
    finalEnergy |-> None, endTime |-> None, refundId |-> None ]

ValidPayment(st, c, amount) ==
  /\ amount > 0
  /\ c # NoConnector => ConnectorStation[c] = st

\* A stop request in flight notes that a session was created or started
\* while it ran (history only: no code reads it).
NoteConcurrent ==
  [ s \in StopSlots |-> IF stop[s].pc \notin {"idle", "done", "closed"}
                        THEN [ stop[s] EXCEPT !.concurrent = TRUE ] ELSE stop[s] ]

\* POST /create-payment-intent: validation, payment intent, transaction row.
CreatePaymentIntent(st, c, amount) ==
  /\ ~Responding
  /\ Len(txs) < MaxTx
  /\ \/ /\ ValidPayment(st, c, amount)
        /\ txs' = Append(txs, NewTransaction(st, c, amount))
        /\ stop' = NoteConcurrent
     \/ /\ UNCHANGED << txs, stop >>   \* 400, or Stripe / the store failed
  /\ UNCHANGED << stationStatus, connStatus, simVars, stripeRefunds, faults, start, tick, emitted >>

\* ------------------------------------------------------------------- start
IdleStart == [ pc |-> "idle", cpId |-> "CP_001", tx |-> NoTx, ocpp |-> FALSE,
               sent |-> FALSE, code |-> 0, demoMode |-> FALSE ]

StartDone(s, code, demo) ==
  start' = [ start EXCEPT ![s].pc = "done", ![s].code = code, ![s].demoMode = demo ]

\* lines 253-277: the lookup of the pending transaction, then the remote start
StartFind(s, st, ocpp) ==
  /\ ~Responding
  /\ start[s].pc = "idle"
  /\ \A r \in StartSlots : r < s => start[r].pc # "idle"
  /\ \/ /\ LET t == FindPending(st) IN
            IF t = NoTx
            THEN start' = [ start EXCEPT ![s] = [ IdleStart EXCEPT !.pc = "done",
                                                   !.cpId = st, !.code = 400 ] ]
            ELSE start' = [ start EXCEPT ![s] = [ IdleStart EXCEPT !.pc = "updateTx",
                                                   !.cpId = st, !.tx = t,
                                                   !.ocpp = ocpp, !.sent = TRUE ] ]
        /\ UNCHANGED faults
     \/ /\ Throws
        /\ start' = [ start EXCEPT ![s] = [ IdleStart EXCEPT !.pc = "done",
                                             !.cpId = st, !.code = 500 ] ]
  /\ UNCHANGED << dbVars, simVars, stripeRefunds, stop, tick, emitted >>

\* lines 282-285 / 301-304: transaction.update({status: 'CHARGING'})
StartUpdateTx(s) ==
  /\ ~Responding
  /\ start[s].pc = "updateTx"
  /\ \/ /\ txs' = [ txs EXCEPT ![start[s].tx].status = "CHARGING" ]
        /\ start' = [ start EXCEPT ![s].pc = "updateStation" ]
        /\ stop' = NoteConcurrent
        /\ UNCHANGED faults
     \/ /\ Throws
        /\ StartDone(s, 500, FALSE)
        /\ UNCHANGED << txs, stop >>
  /\ UNCHANGED << stationStatus, connStatus, simVars, stripeRefunds, tick, emitted >>

\* lines 288-291 / 307-310: station.update({status: 'CHARGING'})
StartUpdateStation(s) ==
  /\ ~Responding
  /\ start[s].pc = "updateStation"
  /\ \/ /\ stationStatus' = [ stationStatus EXCEPT ![start[s].cpId] = "CHARGING" ]
        /\ start' = [ start EXCEPT ![s].pc = "respond" ]
        /\ UNCHANGED faults
     \/ /\ Throws
        /\ StartDone(s, 500, FALSE)
        /\ UNCHANGED stationStatus
  /\ UNCHANGED << txs, connStatus, simVars, stripeRefunds, stop, tick, emitted >>

\* line 35: setInterval returns a handle that no armed timer and no running
\* callback of the transaction holds
Handles == 1..(Cardinality(StartSlots) + Cardinality(TickSlots) + 1)

HandleInUse(t, h) ==
  \/ << t, h >> \in intervals
  \/ \E k \in TickSlots : tick[k].pc = "write" /\ tick[k].tx = t /\ tick[k].handle = h

NewHandle(t) ==
  CHOOSE h \in Handles : ~HandleInUse(t, h) /\ \A g \in 1..(h - 1) : HandleInUse(t, g)

StartDemoAlways(t) ==
  /\ intervals' = intervals \cup { << t, NewHandle(t) >> }
  /\ demoEnergySimulations' = [ demoEnergySimulations EXCEPT ![t] = NewHandle(t) ]

StartDemoNothing(t) == UNCHANGED simVars

\* lines 27-77: startDemoEnergySimulation registers one interval per id
StartDemoEnergySimulation(t) ==
  IF demoEnergySimulations[t] # 0
  THEN UNCHANGED simVars
  ELSE /\ intervals' = intervals \cup { << t, NewHandle(t) >> }
       /\ demoEnergySimulations' = [ demoEnergySimulations EXCEPT ![t] = NewHandle(t) ]

StartRespondDemo(s) ==
  /\ ~Responding
  /\ start[s].pc = "respond"
  /\ StartDemoEnergySimulation(start[s].tx)
  /\ StartDone(s, 200, ~start[s].ocpp)
  /\ UNCHANGED << dbVars, stripeRefunds, faults, stop, tick, emitted >>

\* lines 293-297 / 313-321: the continuation after the station update
StartRespond(s) ==
  /\ ~Responding
  /\ start[s].pc = "respond"
  /\ IF start[s].ocpp
     THEN UNCHANGED simVars
     ELSE StartDemoEnergySimulation(start[s].tx)
  /\ StartDone(s, 200, ~start[s].ocpp)
  /\ UNCHANGED << dbVars, stripeRefunds, faults, stop, tick, emitted >>

StartReturn(s) ==
  /\ start[s].pc = "done"
  /\ start' = [ start EXCEPT ![s] = [ IdleStart EXCEPT !.pc = "closed" ] ]
  /\ UNCHANGED << dbVars, simVars, stripeRefunds, faults, stop, tick, emitted >>

\* -------------------------------------------------------------------- stop
IdleStop == [ pc |-> "idle", stationId |-> "CP_001", tx |-> NoTx, energyKwh |-> 0,
              refundId |-> None, code |-> 0, invoiceSent |-> FALSE,
              concurrent |-> FALSE,
              ocpp |-> FALSE,        \* ocppSuccess, the remote stop's result
              mailed |-> "none",     \* what sendInvoice did (history only)
              released |-> "none" ]  \* what the forced release did (history only)

\* lines 101-114: the newest CHARGING or PENDING transaction of the station
FindAnyStatus(st) == Latest(Matching(st, ActiveStatuses \cup {"COMPLETED"}))
FindActiveOldest(st) == Earliest(Matching(st, ActiveStatuses))
FindActive(st) == Latest(Matching(st, ActiveStatuses))

FindChargingOrPending(st) == Latest(Matching(st, {"CHARGING", "PENDING"}))

\* lines 560-571: the newest CHARGING transaction of the station
FindCharging(st) == Latest(Matching(st, {"CHARGING"}))

\* line 128: cost = transaction.energyKwh * transaction.station.pricePerKwh
Cost(energyKwh, st) == energyKwh * StationPrice[st]

\* line 130: refundAmount = transaction.amount - cost
RefundAmountFull(amount, cost) == amount
RefundAmount(amount, cost) == amount - cost

\* grosze of a ledger amount, exactly: what the gateway charged
ChargedGrosze(amount) == (amount * GroszePerZloty) \div LedgerPerZloty

\* PLN amounts x whose double product x * 100 falls just below the whole
\* number of grosze: 0.29 * 100 is 28.999999999999996
ShortProducts == { AmountInZloty(a) : a \in InexactAmounts }

\* line 143: Math.floor(refundAmount * 100), in double arithmetic
RefundAmountInGrosze(refundAmount) ==
  IF refundAmount \in ShortProducts
  THEN ChargedGrosze(refundAmount) - 1
  ELSE ChargedGrosze(refundAmount)

\* line 138: if (refundAmount > 0)
RefundDueNonZero(refundAmount) == refundAmount # 0
RefundDue(refundAmount) == refundAmount > 0

StopCost(s) == Cost(stop[s].energyKwh, stop[s].stationId)

RECURSIVE SumSeq(_)
SumSeq(q) == IF q = << >> THEN 0 ELSE Head(q) + SumSeq(Tail(q))

\* what the gateway has refunded of the payment of a transaction, in grosze
Refunded(t) == SumSeq(stripeRefunds[t])
StopRefundAmount(s) == RefundAmount(txs[stop[s].tx].amount, StopCost(s))

\* lines 101-133: handleStopTransaction's lookup, cost and refund amount
StopLookupTx(s, st, ocpp) ==
  /\ ~Responding
  /\ stop[s].pc = "idle"
  /\ \A r \in StopSlots : r < s => stop[r].pc # "idle"
  /\ \/ /\ LET t == FindActive(st) IN
            IF t = NoTx
            THEN stop' = [ stop EXCEPT ![s] = [ IdleStop EXCEPT !.pc = "done",
                                                 !.stationId = st, !.code = 404,
                                                 !.ocpp = ocpp ] ]
            ELSE stop' = [ stop EXCEPT ![s] = [ IdleStop EXCEPT
                             !.pc = IF RefundDue(RefundAmount(txs[t].amount,
                                                              Cost(txs[t].energyKwh, st)))
                                    THEN "refund" ELSE "updateTx",
                             !.stationId = st, !.tx = t, !.energyKwh = txs[t].energyKwh,
                             !.ocpp = ocpp ] ]
        /\ UNCHANGED faults
     \/ /\ Throws
        /\ stop' = [ stop EXCEPT ![s] = [ IdleStop EXCEPT !.pc = "release", !.stationId = st,
                                           !.ocpp = ocpp ] ]
  /\ UNCHANGED << dbVars, simVars, stripeRefunds, start, tick, emitted >>

\* a route that settles only when the remote stop was sent
StopFindGated(s, st, ocpp) ==
  IF ocpp
  THEN StopLookupTx(s, st, ocpp)
  ELSE /\ ~Responding
       /\ stop[s].pc = "idle"
       /\ \A r \in StopSlots : r < s => stop[r].pc # "idle"
       /\ stop' = [ stop EXCEPT ![s] = [ IdleStop EXCEPT !.pc = "done", !.stationId = st,
                                          !.code = 404 ] ]
       /\ UNCHANGED << dbVars, simVars, stripeRefunds, faults, start, tick, emitted >>

\* lines 341-346: the remote stop command, then handleStopTransaction whatever
\* the command returned
StopFind(s, st, ocpp) == StopLookupTx(s, st, ocpp)

\* lines 145-148: the gateway creates a refund of a positive amount that the
\* payment still covers
GatewayAccepts(t, grosze) ==
  /\ grosze > 0
  /\ Len(stripeRefunds[t]) < MaxRefunds
  /\ Refunded(t) + grosze <= ChargedGrosze(txs[t].amount)

\* a refund failure that aborts the settlement
StopRefundAbort(s) ==
  /\ ~Responding
  /\ stop[s].pc = "refund"
  /\ \/ /\ GatewayAccepts(stop[s].tx, RefundAmountInGrosze(StopRefundAmount(s)))
        /\ stripeRefunds' = [ stripeRefunds EXCEPT ![stop[s].tx] =
                                Append(@, RefundAmountInGrosze(StopRefundAmount(s))) ]
        /\ stop' = [ stop EXCEPT ![s].pc = "updateTx",
                       ![s].refundId = Some(<< stop[s].tx, Len(stripeRefunds[stop[s].tx]) + 1 >>) ]
     \/ /\ stop' = [ stop EXCEPT ![s].pc = "release" ]
        /\ UNCHANGED stripeRefunds
  /\ UNCHANGED << dbVars, simVars, faults, start, tick, emitted >>

\* lines 138-159: stripe.refunds.create; a failure is logged and swallowed
StopRefund(s) ==
  /\ ~Responding
  /\ stop[s].pc = "refund"
  /\ \/ /\ GatewayAccepts(stop[s].tx, RefundAmountInGrosze(StopRefundAmount(s)))
        /\ stripeRefunds' = [ stripeRefunds EXCEPT ![stop[s].tx] =
                                Append(@, RefundAmountInGrosze(StopRefundAmount(s))) ]
        /\ stop' = [ stop EXCEPT ![s].pc = "updateTx",
                       ![s].refundId = Some(<< stop[s].tx, Len(stripeRefunds[stop[s].tx]) + 1 >>) ]
     \/ /\ stop' = [ stop EXCEPT ![s].pc = "updateTx" ]
        /\ UNCHANGED stripeRefunds
  /\ UNCHANGED << dbVars, simVars, faults, start, tick, emitted >>

\* line 172: new Date() is later than any end time written before
Now(endTime) == IF endTime = None THEN 1 ELSE endTime[1] + 1

\* lines 168-177: transaction.update to COMPLETED
StopUpdateTx(s) ==
  /\ ~Responding
  /\ stop[s].pc = "updateTx"
  /\ \/ /\ txs' = [ txs EXCEPT ![stop[s].tx] =
                      [ @ EXCEPT !.status = "COMPLETED", !.endTime = Some(Now(@)),
                                 !.finalCost = Some(StopCost(s)),
                                 !.finalEnergy = Some(stop[s].energyKwh),
                                 !.refundId = stop[s].refundId ] ]
        /\ stop' = [ stop EXCEPT ![s].pc = "updateStation" ]
        /\ UNCHANGED faults
     \/ /\ Throws
        /\ stop' = [ stop EXCEPT ![s].pc = "release" ]
        /\ UNCHANGED txs
  /\ UNCHANGED << stationStatus, connStatus, simVars, stripeRefunds, start, tick, emitted >>

\* lines 182-185: station.update({status: 'AVAILABLE'})
StopUpdateStation(s) ==
  /\ ~Responding
  /\ stop[s].pc = "updateStation"
  /\ \/ /\ stationStatus' = [ stationStatus EXCEPT ![stop[s].stationId] = "AVAILABLE" ]
        /\ stop' = [ stop EXCEPT ![s].pc = "respond" ]
        /\ UNCHANGED faults
     \/ /\ Throws
        /\ stop' = [ stop EXCEPT ![s].pc = "release" ]
        /\ UNCHANGED stationStatus
  /\ UNCHANGED << txs, connStatus, simVars, stripeRefunds, start, tick, emitted >>

StopDemoNothing(t) == UNCHANGED simVars

\* lines 82-89: stopDemoEnergySimulation
StopDemoEnergySimulation(t) ==
  IF demoEnergySimulations[t] # 0
  THEN /\ intervals' = intervals \ { << t, demoEnergySimulations[t] >> }
       /\ demoEnergySimulations' = [ demoEnergySimulations EXCEPT ![t] = 0 ]
  ELSE UNCHANGED simVars

\* lines 190-228: stop the simulation, send the invoice, return the figures
StopRespond(s, invoice) ==
  /\ ~Responding
  /\ stop[s].pc = "respond"
  /\ StopDemoEnergySimulation(stop[s].tx)
  /\ stop' = [ stop EXCEPT ![s].pc = "done", ![s].code = 200, ![s].invoiceSent = TRUE,
                             ![s].mailed = invoice ]
  /\ UNCHANGED << dbVars, stripeRefunds, faults, start, tick, emitted >>

\* lines 229-249: the catch block tries once more to release the station; the
\* store is failing already, so that this attempt may fail whatever the budget
StopReleaseRethrow(s) ==
  /\ ~Responding
  /\ stop[s].pc = "release"
  /\ \/ /\ stationStatus' = [ stationStatus EXCEPT ![stop[s].stationId] = "AVAILABLE" ]
        /\ stop' = [ stop EXCEPT ![s].pc = "done", ![s].code = 404, ![s].released = "ok" ]
     \/ /\ UNCHANGED stationStatus
        /\ stop' = [ stop EXCEPT ![s].pc = "done", ![s].code = 500, ![s].released = "failed" ]
  /\ UNCHANGED << txs, connStatus, simVars, stripeRefunds, faults, start, tick, emitted >>

StopRelease(s) ==
  /\ ~Responding
  /\ stop[s].pc = "release"
  /\ \/ /\ stationStatus' = [ stationStatus EXCEPT ![stop[s].stationId] = "AVAILABLE" ]
        /\ stop' = [ stop EXCEPT ![s].pc = "done", ![s].code = 404, ![s].released = "ok" ]
     \/ /\ UNCHANGED stationStatus
        /\ stop' = [ stop EXCEPT ![s].pc = "done", ![s].code = 404, ![s].released = "failed" ]
  /\ UNCHANGED << txs, connStatus, simVars, stripeRefunds, faults, start, tick, emitted >>

StopReturn(s) ==
  /\ stop[s].pc = "done"
  /\ stop' = [ stop EXCEPT ![s] = [ IdleStop EXCEPT !.pc = "closed" ] ]
  /\ UNCHANGED << dbVars, simVars, stripeRefunds, faults, start, tick, emitted >>

\* --------------------------------------------------------------- simulator
IdleTick == [ pc |-> "idle", tx |-> NoTx, handle |-> 0, energyKwh |-> 0 ]

TickCancelKeep(t, h) ==
  /\ intervals' = intervals \ { << t, h >> }
  /\ UNCHANGED demoEnergySimulations

\* lines 45-46 / 71-72: clearInterval(interval); demoEnergySimulations.delete(id)
TickCancel(t, h) ==
  /\ intervals' = intervals \ { << t, h >> }
  /\ demoEnergySimulations' = [ demoEnergySimulations EXCEPT ![t] = 0 ]

\* lines 35-48: the timer fires and the callback re-reads the transaction
TickRead(k, t, h) ==
  /\ ~Responding
  /\ tick[k].pc = "idle"
  /\ \A j \in TickSlots : j < k => tick[j].pc # "idle"
  /\ << t, h >> \in intervals
  /\ \/ /\ txs[t].status = "CHARGING"
        /\ txs[t].energyKwh + Quantum <= MaxEnergy
        /\ tick' = [ tick EXCEPT ![k] = [ pc |-> "write", tx |-> t, handle |-> h,
                                           energyKwh |-> txs[t].energyKwh ] ]
        /\ UNCHANGED << simVars, faults >>
     \/ /\ txs[t].status # "CHARGING"
        /\ TickCancel(t, h)
        /\ UNCHANGED << tick, faults >>
     \/ /\ Throws                   \* findUnique threw: the catch block
        /\ TickCancel(t, h)
        /\ UNCHANGED tick
  /\ UNCHANGED << dbVars, stripeRefunds, start, stop, emitted >>

EmitDataStale(t, newEnergyKwh) ==
  [ stationId |-> txs[t].stationId, energy |-> txs[t].energyKwh * WhPerEnergyUnit ]

\* lines 61-65: emitData; chargePointId is the cpId of the start request,
\* the station of the transaction it found
EmitData(t, newEnergyKwh) ==
  [ stationId |-> txs[t].stationId, energy |-> newEnergyKwh * WhPerEnergyUnit ]

\* lines 51-68: newEnergyKwh = transaction.energyKwh + 0.01, update, emit
TickWrite(k) ==
  /\ ~Responding
  /\ tick[k].pc = "write"
  /\ \/ /\ txs' = [ txs EXCEPT ![tick[k].tx].energyKwh = tick[k].energyKwh + Quantum ]
        /\ emitted' = Some(EmitData(tick[k].tx, tick[k].energyKwh + Quantum))
        /\ UNCHANGED << simVars, faults >>
     \/ /\ Throws                   \* update threw: the catch block
        /\ TickCancel(tick[k].tx, tick[k].handle)
        /\ UNCHANGED << txs, emitted >>
  /\ tick' = [ tick EXCEPT ![k] = IdleTick ]
  /\ UNCHANGED << stationStatus, connStatus, stripeRefunds, start, stop >>

\* ------------------------------------------------------------ specification
Init ==
  /\ txs = << >>
  /\ stationStatus = [ s \in Stations |-> "AVAILABLE" ]
  /\ connStatus = [ c \in Connectors |-> "AVAILABLE" ]
  /\ demoEnergySimulations = [ t \in TxIds |-> 0 ]
  /\ intervals = {}
  /\ stripeRefunds = [ t \in TxIds |-> << >> ]
  /\ faults = 0
  /\ start = [ s \in StartSlots |-> IdleStart ]
  /\ stop = [ s \in StopSlots |-> IdleStop ]
  /\ tick = [ k \in TickSlots |-> IdleTick ]
  /\ emitted = None

\* sendRemoteStartTransaction / sendRemoteStopTransaction answer a boolean
RemoteResults == BOOLEAN

\* lines 196-218: sendInvoice reports success, reports failure, or throws
InvoiceResults == {"sent", "failed", "threw"}

\* part_011 lines 659-742: updateConnector writes the status it is given
ConnectorStatuses == {"AVAILABLE", "CHARGING", "FAULTED", "UNAVAILABLE"}

UpdateConnector(c, status) ==
  /\ ~Responding
  /\ connStatus' = [ connStatus EXCEPT ![c] = status ]
  /\ UNCHANGED << txs, stationStatus, simVars, stripeRefunds, faults, start, stop,
                  tick, emitted >>

\* request bodies: a connector of the station, none, or another station's
PaymentRequests == { << "CP_001", "1" >>, << "CP_002", NoConnector >>, << "CP_002", "1" >> }

Payment ==
  \E r \in PaymentRequests, amount \in Amounts : CreatePaymentIntent(r[1], r[2], amount)

\* a payment of 0.29 PLN
PaymentInexact ==
  \E r \in PaymentRequests, amount \in InexactAmounts : CreatePaymentIntent(r[1], r[2], amount)

StartStep(S) ==
  \E s \in S :
    \/ \E st \in Stations, ocpp \in RemoteResults : StartFind(s, st, ocpp)
    \/ StartUpdateTx(s)
    \/ StartUpdateStation(s)
    \/ StartRespond(s)
    \/ StartReturn(s)

StopInFlight == \E r \in StopSlots : stop[r].pc \notin {"idle", "closed"}

\* overlap = FALSE: a stop request is sent when no other is in flight;
\* D: the results the remote stop command may have
StopStep(S, overlap, D) ==
  \E s \in S :
    \/ \E st \in Stations, ocpp \in D :
         (overlap \/ ~StopInFlight) /\ StopFind(s, st, ocpp)
    \/ StopRefund(s)
    \/ StopUpdateTx(s)
    \/ StopUpdateStation(s)
    \/ \E invoice \in InvoiceResults : StopRespond(s, invoice)
    \/ StopRelease(s)
    \/ StopReturn(s)

TickStep(K) ==
  \E k \in K :
    \/ \E t \in TxIds, h \in Handles : TickRead(k, t, h)
    \/ TickWrite(k)

\* one start request, one stop request, one simulator callback at a time
\* (the station is not connected when the stop request arrives)
Next == Payment \/ StartStep({1}) \/ StopStep({1}, TRUE, {FALSE}) \/ TickStep({1})

Spec == Init /\ [][Next]_vars

\* one payment, three start requests for its transaction, one stop request,
\* simulator callbacks
FirstPayment == Len(txs) = 0 /\ Payment

NextSims == FirstPayment \/ StartStep(StartSlots) \/ StopStep({1}, TRUE, {FALSE}) \/ TickStep({1})

SpecSims == Init /\ [][NextSims]_vars

\* one start request, two stop requests that may overlap, simulator callbacks
NextRefunds == Payment \/ StartStep({1}) \/ StopStep(StopSlots, TRUE, {FALSE}) \/ TickStep({1})

SpecRefunds == Init /\ [][NextRefunds]_vars

\* one start request, one stop request, and the administrator setting the
\* stored status of connectors
Admin == \E c \in Connectors, status \in ConnectorStatuses : UpdateConnector(c, status)

NextView == Payment \/ StartStep({1}) \/ StopStep({1}, TRUE, {FALSE}) \/ Admin

SpecView == Init /\ [][NextView]_vars

\* one start request, two stop requests one after the other (no simulator
\* callback: a transaction is settled with the energy it has)
NextStops == Payment \/ StartStep({1}) \/ StopStep(StopSlots, FALSE, {FALSE})

SpecStops == Init /\ [][NextStops]_vars

\* one start request, one stop request, overlapping simulator callbacks
NextTicks == Payment \/ StartStep({1}) \/ StopStep({1}, TRUE, {FALSE}) \/ TickStep(TickSlots)

SpecTicks == Init /\ [][NextTicks]_vars

\* one start request, one stop request whose remote stop command succeeds or
\* not, one simulator callback at a time
NextDevice == Payment \/ StartStep({1}) \/ StopStep({1}, TRUE, RemoteResults) \/ TickStep({1})

SpecDevice == Init /\ [][NextDevice]_vars

\* payments of 0.29 PLN, one start request, one stop request, no simulator
\* callback
NextPending == PaymentInexact \/ StartStep({1}) \/ StopStep({1}, TRUE, {FALSE})

SpecPending == Init /\ [][NextPending]_vars

\* ------------------------------------------------- station view (read only)
\* lines 410-431: connector ids of the station's CHARGING / ACTIVE / PENDING rows
ActiveConnectorIds(st) ==
  { txs[i].connectorId : i \in Matching(st, {"CHARGING", "ACTIVE", "PENDING"}) } \ {NoConnector}

FinalStatusActiveFirst(c) ==
  IF c \in ActiveConnectorIds(ConnectorStation[c]) THEN "CHARGING"
  ELSE IF connStatus[c] \in {"FAULTED", "UNAVAILABLE"} THEN "FAULTED"
  ELSE connStatus[c]

\* lines 434-448: finalStatus of a connector in GET /station/:stationId
FinalStatus(c) ==
  IF connStatus[c] \in {"FAULTED", "UNAVAILABLE"} THEN "FAULTED"
  ELSE IF c \in ActiveConnectorIds(ConnectorStation[c]) THEN "CHARGING"
  ELSE connStatus[c]

\* stationController lines 36-58: connectors of the station's active transactions
ActiveConnectorsByStation(st) ==
  { txs[i].connectorId : i \in Matching(st, {"CHARGING", "ACTIVE", "PENDING"}) } \ {NoConnector}

\* stationController line 61
BusyStationIds ==
  { txs[i].stationId : i \in { j \in 1..Len(txs) : txs[j].status \in {"CHARGING", "ACTIVE", "PENDING"} } }

StationConnectors(st) == { c \in Connectors : ConnectorStation[c] = st }

AvailableCountStored(st) ==
  Cardinality({ c \in StationConnectors(st) : connStatus[c] = "AVAILABLE" })

\* stationController lines 66-74
AvailableCount(st) ==
  Cardinality({ c \in StationConnectors(st) :
                  connStatus[c] = "AVAILABLE" /\ c \notin ActiveConnectorsByStation(st) })

\* stationController line 84
StationListStatus(st) == IF st \in BusyStationIds THEN "Busy" ELSE "Available"

\* part_011 lines 354-370 (getStats)
ConnectorsWithActiveTransactions ==
  { txs[i].connectorId : i \in { j \in 1..Len(txs) : txs[j].status \in {"PENDING", "CHARGING"} } }
    \ {NoConnector}

\* part_011 lines 380-395: the count a connector is added to
StatusCountOf(c) ==
  IF connStatus[c] = "AVAILABLE" /\ c \notin ConnectorsWithActiveTransactions THEN "available"
  ELSE IF \/ c \in ConnectorsWithActiveTransactions
          \/ connStatus[c] \in {"CHARGING", "OCCUPIED", "PENDING"} THEN "charging"
  ELSE IF connStatus[c] \in {"FAULTED", "UNAVAILABLE", "FAILED"} THEN "faulted"
  ELSE "none"

\* part_011 lines 372-398
StatusCounts ==
  [ available |-> Cardinality({ c \in Connectors : StatusCountOf(c) = "available" }),
    charging |-> Cardinality({ c \in Connectors : StatusCountOf(c) = "charging" }),
    faulted |-> Cardinality({ c \in Connectors : StatusCountOf(c) = "faulted" }),
    total |-> Cardinality(Connectors) ]

\* part_011 lines 32-52 (getStations): the status shown for a connector
UpdatedConnectorStatus(c) ==
  IF /\ \E i \in Matching(ConnectorStation[c], {"PENDING", "CHARGING"}) : txs[i].connectorId = c
     /\ connStatus[c] # "FAULTED" /\ connStatus[c] # "UNAVAILABLE"
  THEN "CHARGING"
  ELSE connStatus[c]

\* lines 220-228: the figures handleStopTransaction returns
ReportedRefundAmount(s) == StopRefundAmount(s)

\* lines 560-589: what GET /energy/:stationId answers
LiveEnergy(st) ==
  IF FindCharging(st) = NoTx
  THEN [ success |-> TRUE, energyKwh |-> 0, cost |-> 0 ]
  ELSE [ success |-> TRUE,
         energyKwh |-> txs[FindCharging(st)].energyKwh,
         cost |-> Cost(txs[FindCharging(st)].energyKwh, st) ]

\* line 222: x.toFixed(2), here in grosze
ToFixed2(x) == (x * GroszePerZloty + LedgerPerZloty \div 2) \div LedgerPerZloty

\* lines 119-122, 220-228, 245-248: what handleStopTransaction returns
StopResult(s) ==
  IF stop[s].code = 200
  THEN [ success |-> TRUE,
         message |-> [ cost |-> ToFixed2(StopCost(s)),
                       refund |-> IF StopRefundAmount(s) > 0
                                  THEN ToFixed2(StopRefundAmount(s)) ELSE 0 ],
         invoiceSent |-> stop[s].invoiceSent,
         finalCost |-> StopCost(s),
         refundAmount |-> StopRefundAmount(s),
         energyKwh |-> stop[s].energyKwh ]
  ELSE [ success |-> FALSE, message |-> [ error |-> TRUE ] ]

\* lines 348-360: what GET /stop/:stationId answers
StopResponse(s) ==
  [ status |-> stop[s].code,
    success |-> StopResult(s).success,
    message |-> StopResult(s).message,
    ocppCommandSent |-> stop[s].ocpp ]

\* ------------------------------------------------------------------ claims
Rows == 1..Len(txs)
PendingOf(st) == { i \in Rows : txs[i].stationId = st /\ txs[i].status = "PENDING" }
CompletedRows == { i \in Rows : txs[i].status = "COMPLETED" }

\* C1: no connector is referenced by two transactions in {PENDING, CHARGING}
\* at the same time.
C1_AdmissionControl ==
  \A c \in Connectors :
    Cardinality({ i \in Rows : txs[i].connectorId = c /\ txs[i].status \in ActiveStatuses }) <= 1

\* C2: when a stop request that found an active transaction returns success,
\* whatever the refund and the invoice did, the effective status of that
\* transaction's connector is not CHARGING, unless a session was created or
\* started while the request ran.
C2_ReleaseGuarantee ==
  \A s \in StopSlots :
    ( /\ stop[s].pc = "done"
      /\ stop[s].code = 200
      /\ stop[s].tx # NoTx
      /\ txs[stop[s].tx].connectorId # NoConnector
      /\ ~stop[s].concurrent )
    => FinalStatus(txs[stop[s].tx].connectorId) # "CHARGING"

StopLookup(s) == stop[s].pc = "idle" /\ stop'[s].pc # "idle"

\* C3: a stop request sent when a transaction is already COMPLETED never
\* selects that transaction: it is rejected without touching the ledger or the
\* gateway when the station has no active transaction, and refunds and
\* settlement writes only ever go to the transaction a request selected.
C3_SettlementIdempotent ==
  [][ /\ \A s \in StopSlots :
          /\ StopLookup(s) =>
               /\ stop'[s].tx \notin CompletedRows
               /\ (\A i \in Rows : txs[i].stationId = stop'[s].stationId => i \in CompletedRows)
                   => /\ stop'[s].tx = NoTx
                      /\ stop'[s].pc \in {"done", "release"}
                      /\ stop'[s].pc = "done" => stop'[s].code = 404
                      /\ UNCHANGED << txs, stripeRefunds >>
          /\ stop[s].pc \in {"refund", "updateTx", "updateStation", "respond"}
               => stop'[s].tx = stop[s].tx
      /\ \A t \in Rows :
          /\ stripeRefunds'[t] # stripeRefunds[t]
               => \E s \in StopSlots : stop[s].pc = "refund" /\ stop[s].tx = t
          /\ (txs'[t].endTime # txs[t].endTime \/ txs'[t].finalCost # txs[t].finalCost)
               => \E s \in StopSlots : stop[s].pc = "updateTx" /\ stop[s].tx = t
    ]_vars

\* a second stop request was rejected after the first one settled and refunded
C3_Witness ==
  \E s \in StopSlots :
    /\ stop[s].pc = "done" /\ stop[s].code = 404 /\ stop[s].tx = NoTx /\ faults = 0
    /\ \E i \in CompletedRows :
         txs[i].stationId = stop[s].stationId /\ Len(stripeRefunds[i]) = 1

\* C4: the refund amount a successful settlement reports lies between 0 and
\* the prepaid amount.
C4_RefundBound ==
  \A s \in StopSlots :
    (stop[s].pc = "done" /\ stop[s].code = 200)
    => /\ 0 <= ReportedRefundAmount(s)
       /\ ReportedRefundAmount(s) <= txs[stop[s].tx].amount

\* C5: the accrued energy of a transaction never decreases from one state to
\* the next.
C5_MonotonicEnergy ==
  [][ \A i \in Rows : txs'[i].energyKwh >= txs[i].energyKwh ]_vars

\* C6: once COMPLETED, a transaction keeps its status, end time and final
\* cost.
C6_CompletedTerminal ==
  [][ \A i \in CompletedRows :
        /\ txs'[i].status = "COMPLETED"
        /\ txs'[i].endTime = txs[i].endTime
        /\ txs'[i].finalCost = txs[i].finalCost ]_vars

\* C7: no simulator tick writes accrued energy to a transaction that is
\* COMPLETED.
C7_NoTickAfterCompleted ==
  [][ \A i \in CompletedRows : txs'[i].energyKwh = txs[i].energyKwh ]_vars

StartLookup(s) == start[s].pc = "idle" /\ start'[s].pc # "idle"

\* C8: a start request for a station without a PENDING transaction ends at
\* once, with 400 (no pending transaction) when the lookup answered, sends no
\* remote start, and changes no transaction, no station status and no
\* simulator registration.
C8_NoPendingNoChange ==
  [][ \A s \in StartSlots :
        (StartLookup(s) /\ PendingOf(start'[s].cpId) = {})
        => /\ start'[s].pc = "done"
           /\ faults' = faults => start'[s].code = 400
           /\ ~start'[s].sent
           /\ start'[s].tx = NoTx
           /\ UNCHANGED << txs, stationStatus, connStatus, simVars >> ]_vars

\* a start request was refused for a station whose transaction is COMPLETED
C8_Witness ==
  \E s \in StartSlots :
    /\ start[s].pc = "done" /\ start[s].code = 400
    /\ \E i \in CompletedRows : txs[i].stationId = start[s].cpId

\* C9 as stated: a start request proceeds only when the station has exactly
\* one PENDING transaction.
C9_ExactlyOnePending ==
  [][ \A s \in StartSlots :
        (StartLookup(s) /\ start'[s].pc = "updateTx")
        => Cardinality(PendingOf(start'[s].cpId)) = 1 ]_vars

\* C9 as amended: a start request whose lookup answers is refused with 400
\* exactly when the station has no PENDING transaction, and otherwise goes on
\* with the most recently created PENDING transaction of the station.
C9_NewestPending ==
  [][ \A s \in StartSlots :
        (StartLookup(s) /\ faults' = faults)
        => IF PendingOf(start'[s].cpId) = {}
           THEN start'[s].pc = "done" /\ start'[s].code = 400
           ELSE /\ start'[s].pc = "updateTx"
                /\ start'[s].tx \in PendingOf(start'[s].cpId)
                /\ \A i \in PendingOf(start'[s].cpId) : i <= start'[s].tx ]_vars

\* a start request goes on with the newer of two PENDING transactions
C9_Witness ==
  \E s \in StartSlots :
    /\ start[s].pc = "updateTx" /\ start[s].tx = 2
    /\ PendingOf(start[s].cpId) = {1, 2}

\* C10: a start request whose remote start did not return true marks the
\* transaction CHARGING, then the station CHARGING, then registers an armed
\* simulator for the transaction and answers 200 with demoMode; it ends
\* otherwise only when a store call throws.
C10_SimulatedStart ==
  [][ \A s \in StartSlots :
        (start[s].pc \in {"updateTx", "updateStation", "respond"} /\ ~start[s].ocpp)
        => /\ start[s].pc = "updateTx" =>
                \/ /\ start'[s].pc = "updateStation"
                   /\ txs'[start[s].tx].status = "CHARGING"
                \/ start'[s].pc = "done" /\ start'[s].code = 500 /\ faults' # faults
                \/ start'[s] = start[s]
           /\ start[s].pc = "updateStation" =>
                \/ /\ start'[s].pc = "respond"
                   /\ stationStatus'[start[s].cpId] = "CHARGING"
                \/ start'[s].pc = "done" /\ start'[s].code = 500 /\ faults' # faults
                \/ start'[s] = start[s]
           /\ start[s].pc = "respond" =>
                \/ /\ start'[s].pc = "done" /\ start'[s].code = 200 /\ start'[s].demoMode
                   /\ start'[s].tx = start[s].tx
                   /\ demoEnergySimulations'[start[s].tx] # 0
                   /\ << start[s].tx, demoEnergySimulations'[start[s].tx] >> \in intervals'
                \/ start'[s] = start[s] ]_vars

\* a simulated start has answered: transaction and station CHARGING, simulator armed
C10_Witness ==
  \E s \in StartSlots :
    /\ start[s].pc = "done" /\ start[s].code = 200 /\ start[s].demoMode /\ ~start[s].ocpp
    /\ txs[start[s].tx].status = "CHARGING"
    /\ stationStatus[start[s].cpId] = "CHARGING"
    /\ demoEnergySimulations[start[s].tx] # 0

\* a start request in flight whose remote start command returned true
LiveStart(s) ==
  start[s].ocpp /\ start[s].pc \in {"updateTx", "updateStation", "respond", "done"}

\* no simulator is registered for, and no tick has touched, the transaction of
\* a live start request
LiveUntouched ==
  \A s \in StartSlots :
    LiveStart(s)
    => /\ demoEnergySimulations[start[s].tx] = 0
       /\ \A h \in Handles : << start[s].tx, h >> \notin intervals
       /\ \A k \in TickSlots : tick[k].tx # start[s].tx
       /\ txs[start[s].tx].energyKwh = 0

\* C11: a start request whose remote start returned true marks the
\* transaction CHARGING, then the station CHARGING, and answers 200 without
\* demoMode and without touching the simulator registry; no simulator is
\* registered for its transaction and no tick advances that transaction.
C11_LiveStart ==
  [][ /\ \A s \in StartSlots :
          (LiveStart(s) /\ start'[s].pc # start[s].pc)
          => /\ start[s].pc = "updateTx" =>
                  \/ /\ start'[s].pc = "updateStation"
                     /\ txs'[start[s].tx].status = "CHARGING"
                  \/ start'[s].pc = "done" /\ start'[s].code = 500 /\ faults' # faults
             /\ start[s].pc = "updateStation" =>
                  \/ /\ start'[s].pc = "respond"
                     /\ stationStatus'[start[s].cpId] = "CHARGING"
                  \/ start'[s].pc = "done" /\ start'[s].code = 500 /\ faults' # faults
             /\ start[s].pc = "respond" =>
                  /\ start'[s].pc = "done" /\ start'[s].code = 200 /\ ~start'[s].demoMode
                  /\ start'[s].tx = start[s].tx
                  /\ UNCHANGED simVars
      /\ LiveUntouched'
    ]_vars

\* a live start has answered: transaction and station CHARGING, no simulator
C11_Witness ==
  \E s \in StartSlots :
    /\ start[s].pc = "done" /\ start[s].code = 200 /\ start[s].ocpp /\ ~start[s].demoMode
    /\ txs[start[s].tx].status = "CHARGING"
    /\ stationStatus[start[s].cpId] = "CHARGING"
    /\ demoEnergySimulations[start[s].tx] = 0
    /\ intervals = {}

\* C12: a stop request whose lookup finds no PENDING or CHARGING transaction
\* of the station is answered 404 (not successful) at once, and changes no
\* transaction, no station or connector status, no simulator registration and
\* issues no refund.
C12_NoActiveNoChange ==
  [][ \A s \in StopSlots :
        ( /\ StopLookup(s)
          /\ faults' = faults
          /\ Matching(stop'[s].stationId, ActiveStatuses) = {} )
        => /\ stop'[s].pc = "done"
           /\ stop'[s].code = 404
           /\ stop'[s].tx = NoTx
           /\ stop'[s].refundId = None
           /\ UNCHANGED << txs, stationStatus, connStatus, simVars, stripeRefunds >> ]_vars

\* a stop request was refused for a station that never had a transaction,
\* while another station has one
C12_Witness ==
  \E s \in StopSlots :
    /\ stop[s].pc = "done" /\ stop[s].code = 404 /\ stop[s].released = "none"
    /\ ~StopResult(s).success
    /\ Matching(stop[s].stationId, {"PENDING", "CHARGING", "COMPLETED"}) = {}
    /\ Len(txs) > 0

\* C13: a stop request whose lookup finds an active transaction goes on to
\* settle the newest one, with the refund when one is due, whether the remote
\* stop command returned true or false; the command's result is only echoed.
C13_DeviceStopDoesNotGate ==
  [][ \A s \in StopSlots :
        /\ ( /\ StopLookup(s)
             /\ faults' = faults
             /\ Matching(stop'[s].stationId, ActiveStatuses) # {} )
           => /\ stop'[s].tx = Latest(Matching(stop'[s].stationId, ActiveStatuses))
              /\ stop'[s].pc \in {"refund", "updateTx"}
        /\ stop[s].pc \in {"refund", "updateTx", "updateStation", "respond"}
           => /\ stop'[s].ocpp = stop[s].ocpp
              /\ stop'[s].pc \in {stop[s].pc, "updateTx", "updateStation", "respond",
                                  "release", "done"}
              /\ stop'[s].pc = "release" => faults' # faults
              /\ (stop[s].pc = "respond" /\ stop'[s].pc = "done") => stop'[s].code = 200
    ]_vars

\* a settlement has succeeded although the remote stop command returned false
C13_Witness ==
  \E s \in StopSlots :
    /\ stop[s].pc = "done" /\ stop[s].code = 200
    /\ ~StopResponse(s).ocppCommandSent
    /\ txs[stop[s].tx].status = "COMPLETED"
    /\ txs[stop[s].tx].finalCost = Some(StopCost(s))

\* a settlement in flight whose refund was due and was not created
RefundFailed(s) ==
  /\ stop[s].pc \in {"updateTx", "updateStation", "respond", "done"}
  /\ stop[s].tx # NoTx
  /\ stop[s].refundId = None
  /\ RefundDue(StopRefundAmount(s))

\* C14: when the refund call fails, the settlement goes on: the transaction
\* is written COMPLETED with the computed final cost and a null refund
\* reference, the station is written AVAILABLE, and the call returns success
\* with the computed refund amount (a store error aside).
C14_RefundFailureDoesNotAbort ==
  [][ \A s \in StopSlots :
        /\ (stop[s].pc = "refund" /\ stop'[s].pc # "refund") => stop'[s].pc = "updateTx"
        /\ (RefundFailed(s) /\ stop'[s].pc # stop[s].pc)
           => /\ stop[s].pc = "updateTx" =>
                   \/ stop'[s].pc = "release" /\ faults' # faults
                   \/ /\ stop'[s].pc = "updateStation"
                      /\ txs'[stop[s].tx].status = "COMPLETED"
                      /\ txs'[stop[s].tx].finalCost = Some(StopCost(s))
                      /\ txs'[stop[s].tx].refundId = None
              /\ stop[s].pc = "updateStation" =>
                   \/ stop'[s].pc = "release" /\ faults' # faults
                   \/ /\ stop'[s].pc = "respond"
                      /\ stationStatus'[stop[s].stationId] = "AVAILABLE"
              /\ stop[s].pc = "respond" =>
                   /\ stop'[s].pc = "done" /\ stop'[s].code = 200
                   /\ StopResult(s)'.success
                   /\ StopResult(s)'.refundAmount
                        = txs[stop[s].tx].amount - stop[s].energyKwh * StationPrice[stop[s].stationId]
    ]_vars

\* a settlement whose refund failed has returned success
C14_Witness ==
  \E s \in StopSlots :
    /\ stop[s].pc = "done" /\ stop[s].code = 200 /\ RefundFailed(s)
    /\ stripeRefunds[stop[s].tx] = << >>
    /\ txs[stop[s].tx].status = "COMPLETED"
    /\ txs[stop[s].tx].refundId = None
    /\ stationStatus[stop[s].stationId] = "AVAILABLE"

\* C15: when the transaction update or the station release of a settlement
\* throws, the request makes one attempt to write the station AVAILABLE,
\* whose failure is swallowed, and then returns failure (404), without any
\* other write.
C15_PersistenceFailure ==
  [][ \A s \in StopSlots :
        (stop[s].tx # NoTx /\ stop'[s].pc # stop[s].pc)
        => /\ (stop[s].pc \in {"updateTx", "updateStation"} /\ faults' # faults)
              => /\ stop'[s].pc = "release"
                 /\ UNCHANGED << txs, stationStatus, stripeRefunds >>
           /\ stop[s].pc = "release"
              => /\ stop'[s].pc = "done"
                 /\ stop'[s].code = 404
                 /\ ~StopResult(s)'.success
                 /\ stop'[s].released \in {"ok", "failed"}
                 /\ stop'[s].released = "ok"
                      => stationStatus' = [ stationStatus EXCEPT ![stop[s].stationId] = "AVAILABLE" ]
                 /\ stop'[s].released = "failed" => UNCHANGED stationStatus
                 /\ UNCHANGED << txs, connStatus, simVars, stripeRefunds >>
    ]_vars

\* a settlement whose store write threw has returned failure after a forced
\* release that failed too
C15_Witness ==
  \E s \in StopSlots :
    /\ stop[s].pc = "done" /\ stop[s].code = 404 /\ stop[s].tx # NoTx
    /\ stop[s].released = "failed"
    /\ faults > 0

\* C16: the receipt-sent flag of a successful settlement result is true
\* exactly when the notification service reported success.
C16_ReceiptFlag ==
  \A s \in StopSlots :
    (stop[s].pc = "done" /\ stop[s].code = 200)
    => (StopResult(s).invoiceSent <=> stop[s].mailed = "sent")

\* C17: the response to a successful stop request carries the final cost, the
\* refund amount and the energy consumed that the settlement computed.
C17_DefinitiveFigures ==
  \A s \in StopSlots :
    (stop[s].pc = "done" /\ stop[s].code = 200)
    => /\ {"finalCost", "refundAmount", "energyKwh"} \subseteq DOMAIN StopResponse(s)
       /\ StopResponse(s).finalCost = StopResult(s).finalCost
       /\ StopResponse(s).refundAmount = StopResult(s).refundAmount
       /\ StopResponse(s).energyKwh = StopResult(s).energyKwh

\* the price the transaction's connector sets, the station's when it has none
PriceForConnectorOrStation(i) ==
  IF txs[i].connectorId # NoConnector
  THEN ConnectorPrice[txs[i].connectorId]
  ELSE StationPrice[txs[i].stationId]

\* C18: the final cost of a settled transaction is its final energy times the
\* price of its connector, or times the station's price when it references no
\* connector.
C18_ConnectorPrice ==
  \A i \in CompletedRows :
    txs[i].finalCost = Some(txs[i].finalEnergy[1] * PriceForConnectorOrStation(i))

\* C19: when a successful settlement's cost does not exceed the prepaid
\* amount, the final cost it persisted plus the refund amount it returns is
\* the prepaid amount.
C19_CostPlusRefund ==
  \A s \in StopSlots :
    ( /\ stop[s].pc = "done" /\ stop[s].code = 200
      /\ StopCost(s) <= txs[stop[s].tx].amount )
    => /\ txs[stop[s].tx].finalCost = Some(StopResult(s).finalCost)
       /\ txs[stop[s].tx].finalCost[1] + StopResult(s).refundAmount = txs[stop[s].tx].amount

\* a settlement with a cost and a refund, both positive, has returned
C19_Witness ==
  \E s \in StopSlots :
    /\ stop[s].pc = "done" /\ stop[s].code = 200
    /\ StopResult(s).finalCost > 0
    /\ StopResult(s).refundAmount > 0
    /\ Len(stripeRefunds[stop[s].tx]) = 1

\* a settlement in flight whose cost reaches the prepaid amount
NoRefundDue(s) ==
  /\ stop[s].pc \in {"updateTx", "updateStation", "respond", "done"}
  /\ stop[s].tx # NoTx
  /\ StopCost(s) >= txs[stop[s].tx].amount

\* C20: a settlement whose cost reaches or exceeds the prepaid amount skips
\* the refund call, makes no gateway call at all, writes the transaction
\* COMPLETED with a null refund reference and the station AVAILABLE, and
\* returns success (a store error aside).
C20_NoRefundWhenCostCovers ==
  [][ \A s \in StopSlots :
        /\ ( /\ StopLookup(s) /\ stop'[s].tx # NoTx
             /\ txs[stop'[s].tx].energyKwh * StationPrice[stop'[s].stationId]
                  >= txs[stop'[s].tx].amount )
           => stop'[s].pc = "updateTx" /\ stop'[s].refundId = None
        /\ (NoRefundDue(s) /\ stop'[s].pc # stop[s].pc)
           => /\ UNCHANGED stripeRefunds
              /\ stop'[s].refundId = None
              /\ stop[s].pc = "updateTx" =>
                   \/ stop'[s].pc = "release" /\ faults' # faults
                   \/ /\ stop'[s].pc = "updateStation"
                      /\ txs'[stop[s].tx].status = "COMPLETED"
                      /\ txs'[stop[s].tx].refundId = None
              /\ stop[s].pc = "updateStation" =>
                   \/ stop'[s].pc = "release" /\ faults' # faults
                   \/ /\ stop'[s].pc = "respond"
                      /\ stationStatus'[stop[s].stationId] = "AVAILABLE"
              /\ stop[s].pc = "respond" => stop'[s].pc = "done" /\ stop'[s].code = 200
    ]_vars

\* a settlement whose cost exceeds the prepaid amount has returned success
\* without a refund
C20_Witness ==
  \E s \in StopSlots :
    /\ stop[s].pc = "done" /\ stop[s].code = 200
    /\ StopCost(s) > txs[stop[s].tx].amount
    /\ stripeRefunds[stop[s].tx] = << >>
    /\ txs[stop[s].tx].status = "COMPLETED"
    /\ txs[stop[s].tx].refundId = None
    /\ stationStatus[stop[s].stationId] = "AVAILABLE"

\* the effective status as the claim states it, from the rows of the store
EffectiveStatus(c) ==
  IF connStatus[c] = "FAULTED" \/ connStatus[c] = "UNAVAILABLE" THEN "FAULTED"
  ELSE IF \E i \in Rows : txs[i].connectorId = c /\ txs[i].status \in {"PENDING", "CHARGING"}
       THEN "CHARGING"
  ELSE connStatus[c]

\* C21: the status the station view shows for a connector is FAULTED when its
\* stored status is FAULTED or UNAVAILABLE, else CHARGING when a PENDING or
\* CHARGING transaction references it, else its stored status, in every state
\* of the store.
C21_EffectiveStatus ==
  \A c \in Connectors : FinalStatus(c) = EffectiveStatus(c)

\* a connector stored as UNAVAILABLE is shown FAULTED although an active
\* transaction references it
C21_Witness ==
  \E c \in Connectors :
    /\ connStatus[c] = "UNAVAILABLE"
    /\ \E i \in Rows : txs[i].connectorId = c /\ txs[i].status = "CHARGING"
    /\ FinalStatus(c) = "FAULTED"

ArmedFor(t) == { h \in Handles : << t, h >> \in intervals }

\* C22: a transaction never has more than one armed simulator timer.
C22_OneSimulator ==
  \A t \in TxIds : Cardinality(ArmedFor(t)) <= 1

\* a step of a simulator callback that only touches registry and timers
SelfCancel ==
  /\ simVars' # simVars
  /\ UNCHANGED << start, stop, tick, faults >>

\* C23: a tick goes on to write only when it read its transaction as
\* CHARGING; a tick that read another status clears its timer, deletes the
\* transaction id from the registry and writes nothing.
C23_TickSelfTermination ==
  [][ /\ \A k \in TickSlots :
          (tick[k].pc = "idle" /\ tick'[k].pc = "write")
          => txs[tick'[k].tx].status = "CHARGING"
      /\ SelfCancel
          => \E t \in Rows :
               /\ txs[t].status # "CHARGING"
               /\ ArmedFor(t) # {}
               /\ ArmedFor(t)' = {}
               /\ demoEnergySimulations'[t] = 0
               /\ \A u \in TxIds \ {t} :
                    ArmedFor(u)' = ArmedFor(u) /\ demoEnergySimulations'[u] = demoEnergySimulations[u]
               /\ UNCHANGED << txs, stationStatus, connStatus, stripeRefunds, emitted >>
    ]_vars

\* the simulator of a transaction that a settlement had just completed has
\* cancelled itself before the settlement came to stop it
C23_Witness ==
  \E s \in StopSlots :
    /\ stop[s].pc \in {"updateStation", "respond"}
    /\ faults = 0
    /\ txs[stop[s].tx].status = "COMPLETED"
    /\ txs[stop[s].tx].energyKwh > 0
    /\ demoEnergySimulations[stop[s].tx] = 0
    /\ intervals = {}

\* C24: a tick that read its transaction as CHARGING and whose update
\* succeeds raises the accrued energy of that transaction by the quantum,
\* changes nothing else in the store, and emits an energy_update with the
\* station of the transaction and the energy just persisted (in Wh).
C24_TickQuantum ==
  [][ \A k \in TickSlots :
        (tick[k].pc = "write" /\ tick'[k].pc = "idle" /\ faults' = faults)
        => /\ txs'[tick[k].tx].energyKwh = txs[tick[k].tx].energyKwh + Quantum
           /\ txs' = [ txs EXCEPT ![tick[k].tx].energyKwh = txs'[tick[k].tx].energyKwh ]
           /\ emitted' = Some([ stationId |-> txs'[tick[k].tx].stationId,
                                energy |-> txs'[tick[k].tx].energyKwh * WhPerEnergyUnit ])
           /\ emitted' # emitted
           /\ UNCHANGED << stationStatus, connStatus, simVars, stripeRefunds >>
    ]_vars

\* the second tick of a session has persisted 0.02 kWh and emitted 20 Wh
C24_Witness ==
  /\ emitted = Some([ stationId |-> "CP_001", energy |-> 2 * WhPerEnergyUnit ])
  /\ \E i \in Rows : txs[i].stationId = "CP_001" /\ txs[i].energyKwh = 2 * Quantum

C26_NullUntilSettled ==
  \A i \in Rows :
    /\ txs[i].status # "COMPLETED"
         => txs[i].finalCost = None /\ txs[i].endTime = None /\ txs[i].refundId = None
    /\ (txs[i].finalCost # None /\ txs[i].endTime # None) <=> txs[i].status = "COMPLETED"

\* C27: a stop request selects the most recently created PENDING or CHARGING
\* transaction of the station, and its settlement write completes that
\* transaction and leaves every other transaction as it is.
C27_SettlesNewest ==
  [][ \A s \in StopSlots :
        /\ (StopLookup(s) /\ faults' = faults /\ stop'[s].tx # NoTx)
           => /\ txs[stop'[s].tx].stationId = stop'[s].stationId
              /\ txs[stop'[s].tx].status \in {"CHARGING", "PENDING"}
              /\ \A i \in Rows :
                   (txs[i].stationId = stop'[s].stationId /\ txs[i].status \in {"CHARGING", "PENDING"})
                   => i <= stop'[s].tx
        /\ (stop[s].pc = "updateTx" /\ stop'[s].pc = "updateStation")
           => /\ txs'[stop[s].tx].status = "COMPLETED"
              /\ \A i \in Rows \ {stop[s].tx} : txs'[i] = txs[i]
        /\ (stop[s].pc \in {"updateStation", "respond", "release"} /\ stop'[s].pc # stop[s].pc)
           => UNCHANGED txs
    ]_vars

\* of two active transactions of a station the stop request has completed the
\* newer one and left the older one PENDING
C27_Witness ==
  \E s \in StopSlots :
    /\ stop[s].pc = "done" /\ stop[s].code = 200 /\ stop[s].tx = 2
    /\ txs[2].status = "COMPLETED"
    /\ txs[1].stationId = txs[2].stationId
    /\ txs[1].status = "PENDING" /\ txs[1].finalCost = None

\* C28: a refund call about to be sent carries a positive whole number of
\* grosze, the floor of 100 times the refund amount, and the ledger amount of
\* every transaction is a whole number of grosze divided by 100.
C28_MinorUnits ==
  /\ \A s \in StopSlots :
       stop[s].pc = "refund"
       => /\ RefundAmountInGrosze(StopRefundAmount(s)) > 0
          /\ RefundAmountInGrosze(StopRefundAmount(s)) * LedgerPerZloty
               <= StopRefundAmount(s) * GroszePerZloty
          /\ StopRefundAmount(s) * GroszePerZloty
               < (RefundAmountInGrosze(StopRefundAmount(s)) + 1) * LedgerPerZloty
  /\ \A i \in Rows :
       \E amount \in Amounts : txs[i].amount * GroszePerZloty = amount * LedgerPerZloty

C30_AtMostOneRefund ==
  \A t \in Rows :
    /\ Len(stripeRefunds[t]) <= 1
    /\ Refunded(t) <= ChargedGrosze(txs[t].amount)

\* C31: the final cost that a settlement persists is the accrued energy the
\* transaction has in the store at that moment times the price of its
\* station.
C31_FinalCostMatchesEnergy ==
  [][ \A s \in StopSlots :
        (stop[s].pc = "updateTx" /\ stop'[s].pc = "updateStation")
        => txs'[stop[s].tx].finalCost
             = Some(txs'[stop[s].tx].energyKwh * StationPrice[txs'[stop[s].tx].stationId])
    ]_vars

\* no start request is between its transaction update and its station update
StartsSettled == \A s \in StartSlots : start[s].pc # "updateStation"

\* C32: outside the two writes of a start request, a station whose stored
\* status is AVAILABLE has no CHARGING transaction.
C32_NotAvailableWhileCharging ==
  StartsSettled
  => \A st \in Stations :
       stationStatus[st] = "AVAILABLE"
       => ~ \E i \in Rows : txs[i].stationId = st /\ txs[i].status = "CHARGING"

\* C33: the registry entry of a transaction is removed only when the
\* transaction is no longer CHARGING.
C33_RegisteredWhileCharging ==
  [][ \A t \in Rows :
        (demoEnergySimulations[t] # 0 /\ demoEnergySimulations'[t] = 0)
        => txs[t].status # "CHARGING"
    ]_vars

\* C34: every tick that persists raises the stored energy of its transaction
\* by the quantum, so that n persisted ticks leave n quanta.
C34_NoLostUpdate ==
  [][ \A k \in TickSlots :
        (tick[k].pc = "write" /\ tick'[k].pc = "idle" /\ faults' = faults)
        => txs'[tick[k].tx].energyKwh = txs[tick[k].tx].energyKwh + Quantum
    ]_vars

\* C35: a stop request that read a transaction with no accrued energy asks
\* the gateway to refund the whole amount charged, and its settlement write
\* on a transaction that is still PENDING makes it COMPLETED with final
\* cost 0.
C35_PendingSettlement ==
  [][ \A s \in StopSlots :
        /\ ( /\ stop[s].pc = "refund" /\ stop'[s].pc = "updateTx"
             /\ stop[s].energyKwh = 0
             /\ stripeRefunds' # stripeRefunds )
           => stripeRefunds'[stop[s].tx]
                = Append(stripeRefunds[stop[s].tx], ChargedGrosze(txs[stop[s].tx].amount))
        /\ ( /\ stop[s].pc = "updateTx" /\ stop'[s].pc = "updateStation"
             /\ stop[s].energyKwh = 0
             /\ txs[stop[s].tx].status = "PENDING" )
           => /\ txs'[stop[s].tx].status = "COMPLETED"
              /\ txs'[stop[s].tx].finalCost = Some(0)
    ]_vars

\* C36: the availableCount of a station in the station list is the number of
\* its connectors that the station view shows as AVAILABLE, and the station
\* is listed Busy exactly when a PENDING or CHARGING transaction references
\* it.
C36_ListAgreesWithView ==
  \A st \in Stations :
    /\ AvailableCount(st)
         = Cardinality({ c \in StationConnectors(st) : FinalStatus(c) = "AVAILABLE" })
    /\ StationListStatus(st) = "Busy"
         <=> \E i \in Rows : txs[i].stationId = st /\ txs[i].status \in {"PENDING", "CHARGING"}

\* a station with two connectors stored as AVAILABLE, one of them in an
\* active session, is listed Busy with one available connector
C36_Witness ==
  /\ \A c \in StationConnectors("CP_001") : connStatus[c] = "AVAILABLE"
  /\ \E i \in Rows : txs[i].connectorId = "1" /\ txs[i].status = "CHARGING"
  /\ AvailableCount("CP_001") = 1
  /\ StationListStatus("CP_001") = "Busy"
  /\ StationListStatus("CP_002") = "Available"

\* C37: getStats counts a connector stored as FAULTED or UNAVAILABLE as
\* faulted and getStations does not show it as CHARGING, whatever
\* transactions reference it, and the available, charging and faulted counts
\* sum to the total.
C37_AdminFaultWins ==
  /\ \A c \in Connectors :
       connStatus[c] \in {"FAULTED", "UNAVAILABLE"}
       => StatusCountOf(c) = "faulted" /\ UpdatedConnectorStatus(c) # "CHARGING"
  /\ StatusCounts.available + StatusCounts.charging + StatusCounts.faulted = StatusCounts.total

====
